---- MODULE Spec2Model ----
(***************************************************************************)
(* Lumen-blog backend: the interaction handlers of                         *)
(* backend/app/routers/interactions.py and backend/app/routers/follow.py   *)
(* over the tables of backend/app/models/social.py.                        *)
(*                                                                         *)
(* Every request runs in its own AsyncSession (database.get_db), that is   *)
(* in its own transaction at the store's default READ COMMITTED level.     *)
(* A handler is a coroutine: the event loop may switch to another request  *)
(* at every "await db....".  A request is therefore modelled as a process  *)
(* whose steps are the handler's database round trips:                     *)
(*   - a SELECT reads the rows committed at that moment,                   *)
(*   - db.add / attribute assignment / db.delete only touch the session,   *)
(*   - db.commit() flushes the pending INSERT / UPDATE / DELETE and        *)
(*     commits it, in one step.                                            *)
(* db.refresh() after a commit re-reads the row for the response body; it  *)
(* changes nothing and the response body is not part of the state here.    *)
(***************************************************************************)
EXTENDS Integers, FiniteSets, Sequences, TLC

\* ------------------------------------------------------------------ bounds
\* Number of requests (each process issues one request).
NProcs == 3

Procs == 1..NProcs

\* Number of increment_view_count calls.
MaxViews == 4

\* Number of index events delivered to the search service.
MaxJobs == 3

\* ------------------------------------------------------- program constants
\* The cap of a user's claps on one post: min(..., 50) in like_post and
\* Field(1, ge=1, le=50) in LikeCreate.
MaxClaps == 50

\* Field(1, ge=1, le=50): the least clap_count a request may carry.
MinClaps == 1

\* ------------------------------------------------------------ the universe
\* Rows of the users table.  No handler of the repository deletes a user and
\* get_current_active_user only lets existing, active users through.
Users == {"u1", "u2"}

\* A user id with no row (a follow target that does not resolve).
GhostUser == "u9"

\* Rows of the posts table, and a post id with no row.
Posts == {"p1"}

GhostPost == "p9"

\* clap_count values a request body may carry (before validation).
RawAmounts == {0, 1, 30}

\* A user whose role is UserRole.ADMIN.
AdminUser == "adm"

\* A user whose role is UserRole.AUTHOR.
AuthorUser == "w1"

\* User.role: "admin" for the admin, "author" for the author, the default
\* "reader" for everybody else.
UserRole(u) ==
    IF u = AdminUser THEN "admin" ELSE IF u = AuthorUser THEN "author" ELSE "reader"

\* Rows of the posts table seen by the comment handlers and the view counter.
CommentPosts == {"p1", "p2"}

ViewPosts == {"p1", "p2"}

\* Comment.soft_delete: self.content = "[Bu yorum silindi]"
Tombstone == "[Bu yorum silindi]"

\* Column parent_id of a top-level comment, column deleted_at of a live one.
Null == 0

\* Client addresses (request.client.host) that view posts.
ViewerKeys == {"ip1", "ip2", "ip3"}

\* The registers of a HyperLogLog (Redis keeps 16384 of them).
Registers == {"r1", "r2"}

\* Post.id = uuid.uuid4(): the id the post inserted by request p gets.  Ids
\* are never reused; the requests beyond these ids create no post.
NewPostId == <<"p1", "p2">>

PostIds == {NewPostId[i] : i \in DOMAIN NewPostId}

\* PostStatus
PostStatuses == {"draft", "published", "archived"}

\* What a call of the Elasticsearch client may do: take effect and return, or
\* raise (index unreachable) without effect.
EsOutcomes == {"ok", "down"}

VARIABLES
    likes,      \* table likes:     set of [id, post_id, user_id, clap_count]
    bookmarks,  \* table bookmarks: set of [id, post_id, user_id]
    follows,    \* table follows:   set of [id, follower_id, followed_id]
    pc,         \* pc[p]: where request p stands in its handler
    call,       \* call[p]: the request (handler, current_user, path id, body)
    loaded,     \* loaded[p]: the ORM object the request's SELECT returned
    result,     \* result[p]: the response (the HTTPException detail, or "ok")
    comments,   \* table comments: set of rows (see create_comment_insert)
    now,        \* the clock datetime.utcnow() reads
    hll,        \* Redis: hll[post] is the HyperLogLog "post:<id>:views:hll"
    views,      \* the increment_view_count calls so far, with their results
    posts,      \* table posts: set of [id, title, status, author_id, view_count, updated_at]
    index,      \* Elasticsearch index lumen_posts: set of documents [_id, title, status]
    tasks,      \* background tasks added and not yet run
    events,     \* every background task ever added
    processed   \* the search service calls so far, in order, with their outcome

\* The tables and stores of the comment handlers and of the analytics service.
commentVars == <<comments, now>>

viewVars == <<hll, views>>

\* The posts table, the search index and the background tasks.
postVars == <<posts, index, tasks, events, processed>>

vars == <<likes, bookmarks, follows, pc, call, loaded, result, commentVars, viewVars,
          postVars>>

NoCall == [op |-> "none", user |-> "-", target |-> "-", amount |-> 0]

NoRow == [id |-> 0, clap_count |-> 0]

\* ------------------------------------------------------------------ inputs
LikeCalls ==
    {[op |-> "like_post", user |-> u, target |-> t, amount |-> a] :
        u \in Users, t \in Posts, a \in RawAmounts}
    \cup {[op |-> "like_post", user |-> "u1", target |-> GhostPost, amount |-> 1]}

UnlikeCalls ==
    {[op |-> "unlike_post", user |-> u, target |-> t, amount |-> 0] :
        u \in Users, t \in Posts}

BookmarkCalls ==
    {[op |-> "bookmark_post", user |-> u, target |-> t, amount |-> 0] :
        u \in Users, t \in Posts}
    \cup {[op |-> "bookmark_post", user |-> "u1", target |-> GhostPost, amount |-> 0]}

UnbookmarkCalls ==
    {[op |-> "remove_bookmark", user |-> u, target |-> t, amount |-> 0] :
        u \in Users, t \in Posts}

FollowCalls ==
    {[op |-> "follow_user", user |-> u, target |-> t, amount |-> 0] :
        u \in Users, t \in Users}
    \cup {[op |-> "follow_user", user |-> "u1", target |-> GhostUser, amount |-> 0]}

UnfollowCalls ==
    {c \in {[op |-> "unfollow_user", user |-> u, target |-> t, amount |-> 0] :
                u \in Users, t \in Users} : c.user # c.target}

\* ------------------------------------------------------------------ helpers
Min(a, b) == IF a <= b THEN a ELSE b

\* LikeCreate without its lower limit ge=1.
LikeCreateNoFloor(a) == a <= MaxClaps

\* LikeCreate: clap_count: int = Field(1, ge=1, le=50).  A body that fails
\* validation is answered 422 before the handler runs.
LikeCreateValid(a) == a >= MinClaps /\ a <= MaxClaps

\* select(Like).where(Like.post_id == post_id, Like.user_id == current_user.id)
LikeRows(post, user) == {r \in likes : r.post_id = post /\ r.user_id = user}

\* select(Bookmark).where(Bookmark.post_id == ..., Bookmark.user_id == ...)
BookmarkRows(post, user) == {r \in bookmarks : r.post_id = post /\ r.user_id = user}

\* select(Follow).where(Follow.follower_id == ..., Follow.followed_id == ...)
FollowRows(follower, followed) ==
    {r \in follows : r.follower_id = follower /\ r.followed_id = followed}

\* The request ends: its response is r.
Finish(p, r) ==
    /\ pc' = [pc EXCEPT ![p] = "done"]
    /\ result' = [result EXCEPT ![p] = r]

\* The request moves on to its next await.
Goto(p, label) ==
    /\ pc' = [pc EXCEPT ![p] = label]
    /\ UNCHANGED result

Init ==
    /\ likes = {}
    /\ bookmarks = {}
    /\ follows = {}
    /\ pc = [p \in Procs |-> "idle"]
    /\ call = [p \in Procs |-> NoCall]
    /\ loaded = [p \in Procs |-> NoRow]
    /\ result = [p \in Procs |-> "none"]
    /\ comments = {}
    /\ now = 1
    /\ hll = [t \in ViewPosts |-> [i \in Registers |-> 0]]
    /\ views = << >>
    /\ posts = {}
    /\ index = {}
    /\ tasks = {}
    /\ events = {}
    /\ processed = << >>

\* Requests are numbered in the order they arrive.
MayArrive(p) == pc[p] = "idle" /\ (IF p = 1 THEN TRUE ELSE pc[p - 1] # "idle")

\* ============================================================== LIKES
\* The clap sum without its cap.
AddClapsNoCap(existing, amount) == existing + amount

\* min(existing_like.clap_count + like_data.clap_count, 50)  (like_post, l.45)
AddClaps(existing, amount) == Min(existing + amount, MaxClaps)

\* clap_count=min(like_data.clap_count, 50)  (like_post, l.54)
FirstClaps(amount) == Min(amount, MaxClaps)

\* like_post up to its second await: the body is validated (LikeCreate), then
\* "select(Post).where(Post.id == post_id)" and the 404 when there is no post.
like_post_begin(p) ==
    /\ MayArrive(p)
    /\ \E c \in LikeCalls :
        /\ call' = [call EXCEPT ![p] = c]
        /\ IF ~LikeCreateValid(c.amount)
              THEN Finish(p, "422 Unprocessable Entity")
              ELSE IF c.target \notin Posts
                      THEN Finish(p, "Post not found")
                      ELSE Goto(p, "like_select")
    /\ UNCHANGED <<likes, bookmarks, follows, loaded>>
    /\ UNCHANGED <<commentVars, viewVars, postVars>>

\* "Check existing like": the SELECT and scalar_one_or_none(), which raises
\* MultipleResultsFound (an unhandled exception, a 500) on more than one row.
\* With a row, the new clap_count is computed from the row as loaded here and
\* stays in the session until the commit.
like_post_select(p) ==
    /\ pc[p] = "like_select"
    /\ LET rows == LikeRows(call[p].target, call[p].user) IN
        IF Cardinality(rows) > 1
           THEN /\ Finish(p, "MultipleResultsFound")
                /\ UNCHANGED loaded
           ELSE IF rows = {}
                   THEN /\ Goto(p, "like_insert")
                        /\ UNCHANGED loaded
                   ELSE LET r == CHOOSE x \in rows : TRUE IN
                        /\ loaded' = [loaded EXCEPT
                                        ![p] = [id |-> r.id, clap_count |-> r.clap_count]]
                        /\ Goto(p, "like_update")
    /\ UNCHANGED <<likes, bookmarks, follows, call>>
    /\ UNCHANGED <<commentVars, viewVars, postVars>>

\* "Add more claps": db.commit() flushes
\*     UPDATE likes SET clap_count = <the value computed at the select> WHERE id = <id>
\* and commits.  When the row is gone the UPDATE matches no row and the session
\* raises StaleDataError (a 500): nothing is written.  (When the computed value
\* equals the loaded one no UPDATE is sent, and it is db.refresh() that fails on
\* the missing row: a 500 as well.)
like_post_update(p) ==
    /\ pc[p] = "like_update"
    /\ IF \E r \in likes : r.id = loaded[p].id
          THEN /\ likes' = {IF r.id = loaded[p].id
                               THEN [r EXCEPT !.clap_count =
                                        AddClaps(loaded[p].clap_count, call[p].amount)]
                               ELSE r : r \in likes}
               /\ Finish(p, "ok")
          ELSE /\ UNCHANGED likes
               /\ Finish(p, "StaleDataError")
    /\ UNCHANGED <<bookmarks, follows, call, loaded>>
    /\ UNCHANGED <<commentVars, viewVars, postVars>>

\* "Create new like": db.add(new_like); db.commit().  The table has a primary
\* key on id (a fresh uuid) and no unique constraint on (post_id, user_id):
\* class Meta / unique_together is not read by the mapper, so the INSERT cannot
\* fail.  The fresh id is the request's number.
like_post_insert(p) ==
    /\ pc[p] = "like_insert"
    /\ likes' = likes \cup {[id |-> p, post_id |-> call[p].target,
                             user_id |-> call[p].user,
                             clap_count |-> FirstClaps(call[p].amount)]}
    /\ Finish(p, "ok")
    /\ UNCHANGED <<bookmarks, follows, call, loaded>>
    /\ UNCHANGED <<commentVars, viewVars, postVars>>

\* unlike_post up to db.delete: the SELECT, scalar_one_or_none() and the 404.
unlike_post_select(p) ==
    /\ MayArrive(p)
    /\ \E c \in UnlikeCalls :
        /\ call' = [call EXCEPT ![p] = c]
        /\ LET rows == LikeRows(c.target, c.user) IN
            IF Cardinality(rows) > 1
               THEN /\ Finish(p, "MultipleResultsFound")
                    /\ UNCHANGED loaded
               ELSE IF rows = {}
                       THEN /\ Finish(p, "Like not found")
                            /\ UNCHANGED loaded
                       ELSE LET r == CHOOSE x \in rows : TRUE IN
                            /\ loaded' = [loaded EXCEPT
                                            ![p] = [id |-> r.id, clap_count |-> r.clap_count]]
                            /\ Goto(p, "unlike_delete")
    /\ UNCHANGED <<likes, bookmarks, follows>>
    /\ UNCHANGED <<commentVars, viewVars, postVars>>

\* db.delete(like); db.commit(): DELETE FROM likes WHERE id = <id>.  A DELETE
\* that matches no row is only warned about by the session: the request
\* still answers 204.
unlike_post_delete(p) ==
    /\ pc[p] = "unlike_delete"
    /\ likes' = {r \in likes : r.id # loaded[p].id}
    /\ Finish(p, "ok")
    /\ UNCHANGED <<bookmarks, follows, call, loaded>>
    /\ UNCHANGED <<commentVars, viewVars, postVars>>

\* GET /posts/{post_id}/likes by a viewer.
StatsCalls ==
    {[op |-> "get_post_likes", user |-> u, target |-> t, amount |-> 0] :
        u \in Users, t \in Posts}

\* select(func.sum(Like.clap_count)) over the rows: NULL (None) for no row.
RECURSIVE ClapSum(_)
ClapSum(rows) ==
    IF rows = {} THEN Null
    ELSE LET r == CHOOSE x \in rows : TRUE IN r.clap_count + ClapSum(rows \ {r})

\* get_post_likes, first statement: select(func.count(Like.id)) of the post.
get_post_likes_count(p) ==
    /\ MayArrive(p)
    /\ \E c \in StatsCalls :
        /\ call' = [call EXCEPT ![p] = c]
        /\ loaded' = [loaded EXCEPT ![p] =
                [id |-> 0, clap_count |-> 0,
                 total_likes |-> Cardinality({r \in likes : r.post_id = c.target})]]
        /\ Goto(p, "stats_sum")
    /\ UNCHANGED <<likes, bookmarks, follows, commentVars, viewVars, postVars>>

\* Second statement: select(func.sum(Like.clap_count)); "result.scalar() or 0".
get_post_likes_sum(p) ==
    /\ pc[p] = "stats_sum"
    /\ loaded' = [loaded EXCEPT ![p] =
            [id |-> 0, clap_count |-> 0, total_likes |-> loaded[p].total_likes,
             total_claps |-> ClapSum({r \in likes : r.post_id = call[p].target})]]
    /\ Goto(p, "stats_user")
    /\ UNCHANGED <<likes, bookmarks, follows, call, commentVars, viewVars, postVars>>

\* Third statement: the viewer's like with scalar_one_or_none(), which raises
\* MultipleResultsFound for two rows; then the PostLikeStats response.
get_post_likes_user(p) ==
    /\ pc[p] = "stats_user"
    /\ LET rows == LikeRows(call[p].target, call[p].user) IN
        IF Cardinality(rows) > 1
           THEN /\ Finish(p, "MultipleResultsFound")
                /\ UNCHANGED loaded
           ELSE /\ loaded' = [loaded EXCEPT ![p] =
                        [id |-> 0, clap_count |-> 0,
                         total_likes |-> loaded[p].total_likes,
                         total_claps |-> loaded[p].total_claps,
                         user_liked |-> rows # {},
                         user_claps |-> IF rows = {} THEN 0
                                        ELSE (CHOOSE x \in rows : TRUE).clap_count]]
                /\ Finish(p, "ok")
    /\ UNCHANGED <<likes, bookmarks, follows, call, commentVars, viewVars, postVars>>

\* ============================================================ BOOKMARKS
\* bookmark_post up to its second await: select(Post) and the 404.
bookmark_post_begin(p) ==
    /\ MayArrive(p)
    /\ \E c \in BookmarkCalls :
        /\ call' = [call EXCEPT ![p] = c]
        /\ IF c.target \notin Posts
              THEN Finish(p, "Post not found")
              ELSE Goto(p, "bookmark_select")
    /\ UNCHANGED <<likes, bookmarks, follows, loaded>>
    /\ UNCHANGED <<commentVars, viewVars, postVars>>

\* "Check existing bookmark": the SELECT, scalar_one_or_none() and the 400.
bookmark_post_select(p) ==
    /\ pc[p] = "bookmark_select"
    /\ LET rows == BookmarkRows(call[p].target, call[p].user) IN
        IF Cardinality(rows) > 1
           THEN Finish(p, "MultipleResultsFound")
           ELSE IF rows # {}
                   THEN Finish(p, "Post already bookmarked")
                   ELSE Goto(p, "bookmark_insert")
    /\ UNCHANGED <<likes, bookmarks, follows, call, loaded>>
    /\ UNCHANGED <<commentVars, viewVars, postVars>>

\* "Create bookmark": db.add(new_bookmark); db.commit().  The table has no
\* unique constraint on (post_id, user_id): the INSERT cannot fail.
bookmark_post_insert(p) ==
    /\ pc[p] = "bookmark_insert"
    /\ bookmarks' = bookmarks \cup
            {[id |-> p, post_id |-> call[p].target, user_id |-> call[p].user]}
    /\ Finish(p, "ok")
    /\ UNCHANGED <<likes, follows, call, loaded>>
    /\ UNCHANGED <<commentVars, viewVars, postVars>>

\* remove_bookmark up to db.delete: the SELECT, scalar_one_or_none(), the 404.
remove_bookmark_select(p) ==
    /\ MayArrive(p)
    /\ \E c \in UnbookmarkCalls :
        /\ call' = [call EXCEPT ![p] = c]
        /\ LET rows == BookmarkRows(c.target, c.user) IN
            IF Cardinality(rows) > 1
               THEN /\ Finish(p, "MultipleResultsFound")
                    /\ UNCHANGED loaded
               ELSE IF rows = {}
                       THEN /\ Finish(p, "Bookmark not found")
                            /\ UNCHANGED loaded
                       ELSE LET r == CHOOSE x \in rows : TRUE IN
                            /\ loaded' = [loaded EXCEPT
                                            ![p] = [id |-> r.id, clap_count |-> 0]]
                            /\ Goto(p, "bookmark_delete")
    /\ UNCHANGED <<likes, bookmarks, follows>>
    /\ UNCHANGED <<commentVars, viewVars, postVars>>

\* db.delete(bookmark); db.commit().
remove_bookmark_delete(p) ==
    /\ pc[p] = "bookmark_delete"
    /\ bookmarks' = {r \in bookmarks : r.id # loaded[p].id}
    /\ Finish(p, "ok")
    /\ UNCHANGED <<likes, follows, call, loaded>>
    /\ UNCHANGED <<commentVars, viewVars, postVars>>

\* ============================================================== FOLLOWS
\* follow_user without its self-follow check.
NoSelfFollowCheck(user, target) == FALSE

\* if user_id == current_user.id  (follow_user, l.28)
IsSelfFollow(user, target) == target = user

\* follow_user up to its second await: the self-follow check, which needs no
\* database access, then select(User) and the 404.
follow_user_begin(p) ==
    /\ MayArrive(p)
    /\ \E c \in FollowCalls :
        /\ call' = [call EXCEPT ![p] = c]
        /\ IF IsSelfFollow(c.user, c.target)
              THEN Finish(p, "Cannot follow yourself")
              ELSE IF c.target \notin Users
                      THEN Finish(p, "User not found")
                      ELSE Goto(p, "follow_select")
    /\ UNCHANGED <<likes, bookmarks, follows, loaded>>
    /\ UNCHANGED <<commentVars, viewVars, postVars>>

\* "Check existing follow": the SELECT, scalar_one_or_none() and the 400.
follow_user_select(p) ==
    /\ pc[p] = "follow_select"
    /\ LET rows == FollowRows(call[p].user, call[p].target) IN
        IF Cardinality(rows) > 1
           THEN Finish(p, "MultipleResultsFound")
           ELSE IF rows # {}
                   THEN Finish(p, "Already following this user")
                   ELSE Goto(p, "follow_insert")
    /\ UNCHANGED <<likes, bookmarks, follows, call, loaded>>
    /\ UNCHANGED <<commentVars, viewVars, postVars>>

\* "Create follow": db.add(new_follow); db.commit().  The table has no unique
\* constraint on (follower_id, followed_id): the INSERT cannot fail.
follow_user_insert(p) ==
    /\ pc[p] = "follow_insert"
    /\ follows' = follows \cup
            {[id |-> p, follower_id |-> call[p].user, followed_id |-> call[p].target]}
    /\ Finish(p, "ok")
    /\ UNCHANGED <<likes, bookmarks, call, loaded>>
    /\ UNCHANGED <<commentVars, viewVars, postVars>>

\* unfollow_user up to db.delete: the SELECT, scalar_one_or_none(), the 404.
unfollow_user_select(p) ==
    /\ MayArrive(p)
    /\ \E c \in UnfollowCalls :
        /\ call' = [call EXCEPT ![p] = c]
        /\ LET rows == FollowRows(c.user, c.target) IN
            IF Cardinality(rows) > 1
               THEN /\ Finish(p, "MultipleResultsFound")
                    /\ UNCHANGED loaded
               ELSE IF rows = {}
                       THEN /\ Finish(p, "Not following this user")
                            /\ UNCHANGED loaded
                       ELSE LET r == CHOOSE x \in rows : TRUE IN
                            /\ loaded' = [loaded EXCEPT
                                            ![p] = [id |-> r.id, clap_count |-> 0]]
                            /\ Goto(p, "follow_delete")
    /\ UNCHANGED <<likes, bookmarks, follows>>
    /\ UNCHANGED <<commentVars, viewVars, postVars>>

\* db.delete(follow); db.commit().
unfollow_user_delete(p) ==
    /\ pc[p] = "follow_delete"
    /\ follows' = {r \in follows : r.id # loaded[p].id}
    /\ Finish(p, "ok")
    /\ UNCHANGED <<likes, bookmarks, call, loaded>>
    /\ UNCHANGED <<commentVars, viewVars, postVars>>

\* ============================================================ COMMENTS
\* The requests the comment handlers may receive as request p.  A comment's id
\* (a fresh uuid) is the number of the request that inserts it, so the ids a
\* request can name are those of the requests that arrived before it; an id
\* whose request inserted nothing (yet) resolves to nothing.
\* The comments a request names: those of the first two requests before it.
EarlierComments(p) == 1..(p - 1) \cap 1..2

\* The other post, the post that does not exist, the reader who is not the
\* author and the tombstone text are tried by the first three requests.
Variants(p, S) == IF p <= 3 THEN S ELSE {}

CreateCommentCalls(p) ==
    {[op |-> "create_comment", user |-> "u1", target |-> "p1", amount |-> 0,
      cid |-> Null, parent |-> c, content |-> "a"] : c \in {Null} \cup EarlierComments(p)}
    \cup Variants(p,
          {[op |-> "create_comment", user |-> "u1", target |-> "p2", amount |-> 0,
            cid |-> Null, parent |-> c, content |-> "a"] :
                c \in {Null} \cup ({1} \cap EarlierComments(p))}
          \cup {[op |-> "create_comment", user |-> "u1", target |-> GhostPost,
                 amount |-> 0, cid |-> Null, parent |-> Null, content |-> "a"],
                [op |-> "create_comment", user |-> "u1", target |-> "p1",
                 amount |-> 0, cid |-> Null, parent |-> Null, content |-> Tombstone]})

UpdateCommentCalls(p) ==
    {[op |-> "update_comment", user |-> u, target |-> "p1", amount |-> 0,
      cid |-> c, parent |-> Null, content |-> "b"] :
        u \in {"u1", AdminUser}, c \in EarlierComments(p)}

DeleteCommentCalls(p) ==
    {[op |-> "delete_comment", user |-> u, target |-> "p1", amount |-> 0,
      cid |-> c, parent |-> Null, content |-> "-"] :
        u \in {"u1", AdminUser}, c \in EarlierComments(p)}
    \cup Variants(p,
          {[op |-> "delete_comment", user |-> "u2", target |-> "p1", amount |-> 0,
            cid |-> c, parent |-> Null, content |-> "-"] : c \in {1} \cap EarlierComments(p)}
          \cup {[op |-> "delete_comment", user |-> "u1", target |-> "p2", amount |-> 0,
                 cid |-> c, parent |-> Null, content |-> "-"] :
                    c \in {1} \cap EarlierComments(p)})

\* select(Comment).where(Comment.id == <id>, Comment.post_id == post_id): the
\* id is the primary key, so this is no row or one row.
CommentRows(id, post) == {r \in comments : r.id = id /\ r.post_id = post}

\* The parent lookup without its post filter.
ParentRowsAnyPost(parent, post) == {r \in comments : r.id = parent}

\* "Verify parent comment if replying"  (create_comment, l.39-45)
ParentRows(parent, post) == CommentRows(parent, post)

\* The clock may have moved on when a commit returns.
TimePasses == now' \in {now, now + 1}

\* An UPDATE that also detaches the comment from its parent.
FlushDetach(cur, snap, obj) ==
    [c \in DOMAIN cur |->
        IF c \in {"content", "is_deleted", "deleted_at"} THEN obj[c]
        ELSE IF c = "parent_id" THEN Null
        ELSE cur[c]]

\* The UPDATE a commit flushes for the object obj, loaded as snap: it sets the
\* columns whose attribute was given another value than the loaded one, and
\* updated_at (onupdate=datetime.utcnow) when it sets any.  cur is the row as
\* it stands in the table.
Flush(cur, snap, obj) ==
    LET dirty == {c \in {"content", "is_deleted", "deleted_at"} : obj[c] # snap[c]} IN
    [c \in DOMAIN cur |->
        IF c \in dirty THEN obj[c]
        ELSE IF c = "updated_at" /\ dirty # {} THEN now
        ELSE cur[c]]

\* The UPDATE written to the comment and to its replies as well.
CommittedCascade(p) ==
    {IF r.id = loaded[p].id \/ r.parent_id = loaded[p].id
        THEN Flush(r, loaded[p].row, loaded[p].obj) ELSE r : r \in comments}

\* The table after the commit of request p's loaded object.  The comment
\* handlers never remove a row, so the UPDATE finds its row.
Committed(p) ==
    {IF r.id = loaded[p].id THEN Flush(r, loaded[p].row, loaded[p].obj) ELSE r :
        r \in comments}

\* create_comment up to its second await: select(Post) and the 404.
create_comment_begin(p) ==
    /\ MayArrive(p)
    /\ \E c \in CreateCommentCalls(p) :
        /\ call' = [call EXCEPT ![p] = c]
        /\ IF c.target \notin CommentPosts
              THEN Finish(p, "Post not found")
              ELSE IF c.parent # Null
                      THEN Goto(p, "comment_parent")
                      ELSE Goto(p, "comment_insert")
    /\ UNCHANGED <<likes, bookmarks, follows, loaded, commentVars, viewVars, postVars>>

\* "Verify parent comment if replying": the SELECT and the 404.
create_comment_parent(p) ==
    /\ pc[p] = "comment_parent"
    /\ IF ParentRows(call[p].parent, call[p].target) = {}
          THEN Finish(p, "Parent comment not found")
          ELSE Goto(p, "comment_insert")
    /\ UNCHANGED <<likes, bookmarks, follows, call, loaded, commentVars, viewVars, postVars>>

\* "Create comment": db.add(new_comment); db.commit().  The column defaults
\* are evaluated at the flush: is_deleted False, deleted_at NULL, created_at
\* and updated_at datetime.utcnow().  The refresh and the SELECT that loads the
\* author afterwards change nothing.
create_comment_insert(p) ==
    /\ pc[p] = "comment_insert"
    /\ comments' = comments \cup
            {[id |-> p, content |-> call[p].content, post_id |-> call[p].target,
              author_id |-> call[p].user, parent_id |-> call[p].parent,
              is_deleted |-> FALSE, deleted_at |-> Null,
              created_at |-> now, updated_at |-> now]}
    /\ TimePasses
    /\ Finish(p, "ok")
    /\ UNCHANGED <<likes, bookmarks, follows, call, loaded, viewVars, postVars>>

\* update_comment without its is_deleted check.
EditableAlways(r) == TRUE

\* if comment.is_deleted: raise 400  (update_comment, l.158)
Editable(r) == ~r.is_deleted

\* update_comment up to db.commit: the SELECT, the 404, the 403, the 400 and
\* "comment.content = comment_update.content" on the loaded object.
update_comment_begin(p) ==
    /\ MayArrive(p)
    /\ \E c \in UpdateCommentCalls(p) :
        /\ call' = [call EXCEPT ![p] = c]
        /\ LET rows == CommentRows(c.cid, c.target) IN
            IF rows = {}
               THEN /\ Finish(p, "Comment not found")
                    /\ UNCHANGED loaded
               ELSE LET r == CHOOSE x \in rows : TRUE IN
                    IF r.author_id # c.user
                       THEN /\ Finish(p, "Not authorized to update this comment")
                            /\ UNCHANGED loaded
                       ELSE IF ~Editable(r)
                               THEN /\ Finish(p, "Cannot update deleted comment")
                                    /\ UNCHANGED loaded
                               ELSE /\ loaded' = [loaded EXCEPT ![p] =
                                            [id |-> r.id, clap_count |-> 0, row |-> r,
                                             obj |-> [r EXCEPT !.content = c.content]]]
                                    /\ Goto(p, "comment_update")
    /\ UNCHANGED <<likes, bookmarks, follows, commentVars, viewVars, postVars>>

\* db.commit() of update_comment.
update_comment_commit(p) ==
    /\ pc[p] = "comment_update"
    /\ comments' = Committed(p)
    /\ TimePasses
    /\ Finish(p, "ok")
    /\ UNCHANGED <<likes, bookmarks, follows, call, loaded, viewVars, postVars>>

\* Comment.soft_delete  (models/social.py, l.44-48)
SoftDelete(r) ==
    [r EXCEPT !.is_deleted = TRUE, !.deleted_at = now, !.content = Tombstone]

\* not (comment.author_id != current_user.id and role != "admin")  (l.187)
MayDelete(u, r) == r.author_id = u \/ UserRole(u) = "admin"

\* delete_comment up to db.commit: the SELECT, the 404, the 403 and
\* comment.soft_delete() on the loaded object.
delete_comment_begin(p) ==
    /\ MayArrive(p)
    /\ \E c \in DeleteCommentCalls(p) :
        /\ call' = [call EXCEPT ![p] = c]
        /\ LET rows == CommentRows(c.cid, c.target) IN
            IF rows = {}
               THEN /\ Finish(p, "Comment not found")
                    /\ UNCHANGED loaded
               ELSE LET r == CHOOSE x \in rows : TRUE IN
                    IF ~MayDelete(c.user, r)
                       THEN /\ Finish(p, "Not authorized to delete this comment")
                            /\ UNCHANGED loaded
                       ELSE /\ loaded' = [loaded EXCEPT ![p] =
                                    [id |-> r.id, clap_count |-> 0, row |-> r,
                                     obj |-> SoftDelete(r)]]
                            /\ Goto(p, "comment_delete")
    /\ UNCHANGED <<likes, bookmarks, follows, commentVars, viewVars, postVars>>

\* db.commit() of delete_comment.
delete_comment_commit(p) ==
    /\ pc[p] = "comment_delete"
    /\ comments' = Committed(p)
    /\ TimePasses
    /\ Finish(p, "ok")
    /\ UNCHANGED <<likes, bookmarks, follows, call, loaded, viewVars, postVars>>

\* ------------------------------------------------------ comment queries
\* The orders in which "ORDER BY created_at <dir>" may return the rows S: rows
\* with equal created_at come in any order.
RECURSIVE Orderings(_, _)
Orderings(S, dir) ==
    IF S = {} THEN {<< >>}
    ELSE LET first == {x \in S : \A y \in S :
                         IF dir = "desc" THEN x.created_at >= y.created_at
                                         ELSE x.created_at <= y.created_at}
         IN UNION {{<<x>> \o s : s \in Orderings(S \ {x}, dir)} : x \in first}

\* size: int = Query(20, ge=1, le=100)
DefaultSize == 20

\* .offset((page - 1) * size).limit(size)
PageOf(s, page, size) ==
    SubSeq(s, (page - 1) * size + 1, Min(Len(s), page * size))

\* The top-level filter that leaves soft-deleted comments out.
TopLevelLive(post) ==
    {r \in comments : r.post_id = post /\ r.parent_id = Null /\ ~r.is_deleted}

\* .where(Comment.post_id == post_id, Comment.parent_id == None)
TopLevel(post) == {r \in comments : r.post_id = post /\ r.parent_id = Null}

\* .where(Comment.post_id == post_id, Comment.parent_id == comment_id)
Replies(post, cid) == {r \in comments : r.post_id = post /\ r.parent_id = cid}

\* The comments below comment id, at any depth.
RECURSIVE Descendants(_)
Descendants(id) ==
    LET kids == {r \in comments : r.parent_id = id} IN
    kids \cup UNION {Descendants(k.id) : k \in kids}

\* A reply count over the whole subtree.
ReplyCountSubtree(id) == Cardinality(Descendants(id))

\* select(func.count(Comment.id)).where(Comment.parent_id == comment.id)
ReplyCount(id) == Cardinality({r \in comments : r.parent_id = id})

\* get_comments: the responses the handler may give, each a list of
\* [comment, reply_count].  The list is one SELECT and each reply count is
\* one SELECT more; here they all read the same state.
get_comments(post, page, size) ==
    {[i \in 1..Len(pg) |-> [comment |-> pg[i], reply_count |-> ReplyCount(pg[i].id)]] :
        pg \in {PageOf(s, page, size) : s \in Orderings(TopLevel(post), "desc")}}

\* get_replies: the responses the handler may give (one SELECT).
get_replies(post, cid, page, size) ==
    {PageOf(s, page, size) : s \in Orderings(Replies(post, cid), "asc")}

\* ============================================================ ANALYTICS
\* The HyperLogLog Redis keeps under "post:<post_id>:views:hll" is a row of
\* registers.  An element hashes to one register and to a rank, and PFADD
\* raises that register to the rank when it is lower.
HashRegister(k) ==
    CASE k = "ip1" -> "r1"
      [] k = "ip2" -> "r1"
      [] OTHER -> "r2"

HashRank(k) ==
    CASE k = "ip1" -> 2
      [] OTHER -> 1

\* The registers of a HyperLogLog after PFADD of element k.
PfAddRegisters(regs, k) ==
    [regs EXCEPT ![HashRegister(k)] = IF @ < HashRank(k) THEN HashRank(k) ELSE @]

\* PFADD's reply: 1 when a register was altered, 0 otherwise.
PfAdd(regs, k) == IF PfAddRegisters(regs, k) # regs THEN 1 ELSE 0

\* AnalyticsService.increment_view_count(post_id, ip_address): one PFADD, a
\* single Redis command, so calls take effect one after another.  The call and
\* what it returned are appended to views.
increment_view_count(t, k) ==
    /\ Len(views) < MaxViews
    /\ hll' = [hll EXCEPT ![t] = PfAddRegisters(@, k)]
    /\ views' = Append(views, [post |-> t, key |-> k, unique |-> PfAdd(hll[t], k) = 1])
    /\ UNCHANGED <<likes, bookmarks, follows, pc, call, loaded, result, commentVars,
                   postVars>>

\* ================================================================ POSTS
\* Titles are distinct per request, so Post.create_slug gives every post a
\* slug of its own and a slug names the post with that id.
CreatePostCalls(p) ==
    IF p \in DOMAIN NewPostId
       THEN {[op |-> "create_post", user |-> AuthorUser, target |-> NewPostId[p],
              amount |-> 0, status |-> st, title |-> "a"] :
                st \in IF p = 1 THEN PostStatuses ELSE {"published"}}
            \cup {[op |-> "create_post", user |-> "u1", target |-> NewPostId[p],
                   amount |-> 0, status |-> "published", title |-> "a"] :
                    q \in {p} \cap {1}}
       ELSE {}

\* PostUpdate bodies (exclude_unset): a new status or a new title.  The
\* first request finds no post yet; a reader tries on the third; the updates
\* are the second and the third request.
UpdatePostCalls(p) ==
    {[op |-> "update_post", user |-> AuthorUser, target |-> "p1", amount |-> 0,
      status |-> st, title |-> "unset"] :
        st \in IF p \in 2..3 THEN {"published", "archived"} ELSE {}}
    \cup {[op |-> "update_post", user |-> u, target |-> "p1", amount |-> 0,
           status |-> "unset", title |-> "b"] :
            u \in IF p = 2 THEN {AuthorUser} ELSE IF p = 3 THEN {AuthorUser, "u1"}
                  ELSE {}}

DeletePostCalls(p) ==
    {[op |-> "delete_post", user |-> u, target |-> "p1", amount |-> 0,
      status |-> "unset", title |-> "unset"] :
        u \in IF p = 3 THEN {AuthorUser, "u1"} ELSE {AuthorUser}}

\* GET /api/posts/{slug} from the client address key.
ViewCalls(p) ==
    {[op |-> "get_post_by_slug", user |-> "-", target |-> "p1", amount |-> 0,
      key |-> k] : k \in ViewerKeys}
    \cup {[op |-> "get_post_by_slug", user |-> "-", target |-> t, amount |-> 0,
           key |-> "ip1"] : t \in {"p2", GhostPost}}

\* select(Post).where(Post.id == post_id): no row or one row.
PostRows(id) == {r \in posts : r.id = id}

\* require_author = RoleChecker([ADMIN, EDITOR, AUTHOR])
RequireAuthor(u) == UserRole(u) \in {"admin", "editor", "author"}

\* A handler without the ownership check.
MayChangeAnyPost(u, r) == TRUE

\* post.author_id != current_user.id and current_user.role.value != "admin"
MayChangePost(u, r) == r.author_id = u \/ UserRole(u) = "admin"

\* The test that lets every post into the index.
IsPublishedAlways(r) == TRUE

\* post.status == PostStatus.PUBLISHED
IsPublished(r) == r.status = "published"

\* The task search_service.index_post(post_dict) added by request p: post_dict
\* is PostResponse of the row r (title, status, updated_at among its fields).
UpsertTask(p, r) ==
    [n |-> p, kind |-> "upsert", id |-> r.id, title |-> r.title,
     status |-> r.status, updated_at |-> r.updated_at]

\* The task search_service.delete_post(str(post_id)) added by request p.
RemoveTask(p, id) ==
    [n |-> p, kind |-> "remove", id |-> id, title |-> "-", status |-> "-",
     updated_at |-> Null]

\* background_tasks.add_task
AddTask(t) ==
    /\ tasks' = tasks \cup {t}
    /\ events' = events \cup {t}

\* A handler that adds a remove task on its way out with an exception.
TasksOnErrorRemove(p) == {RemoveTask(p, call[p].target)}

\* The tasks request p adds when refresh or commit raises: the exception
\* leaves the handler before it reaches add_task.
TasksOnError(p) == {}

\* The UPDATE a commit flushes for the post obj, loaded as snap (see Flush).
PostFlush(cur, snap, obj) ==
    LET dirty == {c \in {"title", "status", "view_count"} : obj[c] # snap[c]} IN
    [c \in DOMAIN cur |->
        IF c \in dirty THEN obj[c]
        ELSE IF c = "updated_at" /\ dirty # {} THEN now
        ELSE cur[c]]

\* The flush of request p's loaded post emits an UPDATE.
PostDirty(p) == loaded[p].obj # loaded[p].row

\* The posts table after the commit of request p's loaded post.
PostCommitted(p) ==
    {IF r.id = loaded[p].id THEN PostFlush(r, loaded[p].row, loaded[p].obj) ELSE r :
        r \in posts}

\* create_post: the role check of require_author, then the SELECT of the slugs.
create_post_begin(p) ==
    /\ MayArrive(p)
    /\ \E c \in CreatePostCalls(p) :
        /\ call' = [call EXCEPT ![p] = c]
        /\ IF ~RequireAuthor(c.user)
              THEN Finish(p, "Not enough permissions")
              ELSE Goto(p, "post_insert")
    /\ UNCHANGED <<likes, bookmarks, follows, loaded, commentVars, viewVars, postVars>>

\* db.add(new_post); await db.commit()
create_post_commit(p) ==
    /\ pc[p] = "post_insert"
    /\ posts' = posts \cup {[id |-> call[p].target, title |-> call[p].title,
                            status |-> call[p].status, author_id |-> call[p].user,
                            view_count |-> 0, updated_at |-> now]}
    /\ TimePasses
    /\ Goto(p, "post_reload")
    /\ UNCHANGED <<likes, bookmarks, follows, call, loaded, comments, viewVars,
                   index, tasks, events, processed>>

\* await db.refresh(new_post), the SELECT with the author, the index task and
\* the response.  refresh raises when the row is gone.
create_post_reload(p) ==
    /\ pc[p] = "post_reload"
    /\ LET rows == PostRows(call[p].target) IN
        IF rows = {}
           THEN /\ Finish(p, "Internal Server Error")
                /\ tasks' = tasks \cup TasksOnError(p)
                /\ events' = events \cup TasksOnError(p)
           ELSE LET r == CHOOSE x \in rows : TRUE IN
                /\ IF IsPublished(r)
                      THEN AddTask(UpsertTask(p, r))
                      ELSE UNCHANGED <<tasks, events>>
                /\ Finish(p, "ok")
    /\ UNCHANGED <<likes, bookmarks, follows, call, loaded, commentVars, viewVars,
                   posts, index, processed>>

\* update_post up to its commit: the SELECT, the checks and the setattr loop.
update_post_begin(p) ==
    /\ MayArrive(p)
    /\ \E c \in UpdatePostCalls(p) :
        /\ call' = [call EXCEPT ![p] = c]
        /\ LET rows == PostRows(c.target) IN
            IF rows = {}
               THEN /\ Finish(p, "Post not found")
                    /\ UNCHANGED loaded
               ELSE LET r == CHOOSE x \in rows : TRUE IN
                    IF ~MayChangePost(c.user, r)
                       THEN /\ Finish(p, "Not authorized to update this post")
                            /\ UNCHANGED loaded
                       ELSE /\ loaded' = [loaded EXCEPT ![p] =
                                    [id |-> r.id, clap_count |-> 0, row |-> r,
                                     obj |-> [r EXCEPT
                                        !.title = IF c.title = "unset" THEN @ ELSE c.title,
                                        !.status = IF c.status = "unset" THEN @ ELSE c.status]]]
                            /\ Goto(p, "post_update")
    /\ UNCHANGED <<likes, bookmarks, follows, commentVars, viewVars, postVars>>

\* await db.commit() of update_post: an UPDATE of the changed columns, which
\* raises StaleDataError when the row is gone; no UPDATE when nothing changed.
update_post_commit(p) ==
    /\ pc[p] = "post_update"
    /\ IF PostDirty(p) /\ PostRows(loaded[p].id) = {}
          THEN /\ Finish(p, "Internal Server Error")
               /\ UNCHANGED <<posts, now>>
          ELSE /\ posts' = PostCommitted(p)
               /\ TimePasses
               /\ Goto(p, "post_refresh")
    /\ UNCHANGED <<likes, bookmarks, follows, call, loaded, comments, viewVars,
                   index, tasks, events, processed>>

\* await db.refresh(post); return post.  The handler ends here: the lines that
\* add the index task come after this return and never run.
update_post_refresh(p) ==
    /\ pc[p] = "post_refresh"
    /\ IF PostRows(loaded[p].id) = {}
          THEN Finish(p, "Internal Server Error")
          ELSE Finish(p, "ok")
    /\ UNCHANGED <<likes, bookmarks, follows, call, loaded, commentVars, viewVars,
                   postVars>>

\* delete_post up to its commit: the SELECT and the checks.
delete_post_begin(p) ==
    /\ MayArrive(p)
    /\ \E c \in DeletePostCalls(p) :
        /\ call' = [call EXCEPT ![p] = c]
        /\ LET rows == PostRows(c.target) IN
            IF rows = {}
               THEN /\ Finish(p, "Post not found")
                    /\ UNCHANGED loaded
               ELSE LET r == CHOOSE x \in rows : TRUE IN
                    IF ~MayChangePost(c.user, r)
                       THEN /\ Finish(p, "Not authorized to delete this post")
                            /\ UNCHANGED loaded
                       ELSE /\ loaded' = [loaded EXCEPT ![p] =
                                    [id |-> r.id, clap_count |-> 0, row |-> r, obj |-> r]]
                            /\ Goto(p, "post_delete")
    /\ UNCHANGED <<likes, bookmarks, follows, commentVars, viewVars, postVars>>

\* The rows the relationships comments, likes and bookmarks of the post load.
\* The flush of db.delete(post) sets their post_id to NULL, which the columns
\* (nullable=False) refuse.
PostChildren(id) ==
    {r \in comments \cup likes \cup bookmarks : r.post_id = id}

\* await db.delete(post); await db.commit(); then the remove task.  A DELETE
\* that finds the row gone deletes nothing and is not an error.
delete_post_commit(p) ==
    /\ pc[p] = "post_delete"
    /\ IF PostChildren(loaded[p].id) # {}
          THEN /\ Finish(p, "Internal Server Error")
               /\ tasks' = tasks \cup TasksOnError(p)
               /\ events' = events \cup TasksOnError(p)
               /\ UNCHANGED posts
          ELSE /\ posts' = posts \ PostRows(loaded[p].id)
               /\ AddTask(RemoveTask(p, loaded[p].id))
               /\ Finish(p, "ok")
    /\ UNCHANGED <<likes, bookmarks, follows, call, loaded, commentVars, viewVars,
                   index, processed>>

\* get_post_by_slug: the SELECT by slug and the two 404 checks.
get_post_by_slug_begin(p) ==
    /\ MayArrive(p)
    /\ \E c \in ViewCalls(p) :
        /\ call' = [call EXCEPT ![p] = c]
        /\ LET rows == PostRows(c.target) IN
            IF rows = {}
               THEN /\ Finish(p, "Post not found")
                    /\ UNCHANGED loaded
               ELSE LET r == CHOOSE x \in rows : TRUE IN
                    IF ~IsPublished(r)
                       THEN /\ Finish(p, "Post not found")
                            /\ UNCHANGED loaded
                       ELSE /\ loaded' = [loaded EXCEPT ![p] =
                                    [id |-> r.id, clap_count |-> 0, row |-> r,
                                     obj |-> [r EXCEPT !.view_count = @ + 1]]]
                            /\ Goto(p, "view_pfadd")
    /\ UNCHANGED <<likes, bookmarks, follows, commentVars, viewVars, postVars>>

\* await analytics_service.increment_view_count(str(post.id), client_ip).  The
\* call is not guarded: when Redis is unreachable its exception ends the
\* request.
get_post_by_slug_pfadd(p) ==
    /\ pc[p] = "view_pfadd"
    /\ \E up \in BOOLEAN :
        IF ~up
           THEN /\ Finish(p, "Internal Server Error")
                /\ UNCHANGED viewVars
           ELSE LET t == loaded[p].id
                    unique == PfAdd(hll[t], call[p].key) = 1 IN
                /\ hll' = [hll EXCEPT ![t] = PfAddRegisters(@, call[p].key)]
                /\ views' = Append(views, [post |-> t, key |-> call[p].key,
                                           unique |-> unique])
                /\ IF unique THEN Goto(p, "view_commit") ELSE Finish(p, "ok")
    /\ UNCHANGED <<likes, bookmarks, follows, call, loaded, commentVars, postVars>>

\* post.view_count += 1; await db.commit(): UPDATE posts SET view_count =
\* <the count read by the SELECT, plus 1> WHERE id = ...
get_post_by_slug_commit(p) ==
    /\ pc[p] = "view_commit"
    /\ IF PostRows(loaded[p].id) = {}
          THEN /\ Finish(p, "Internal Server Error")
               /\ UNCHANGED <<posts, now>>
          ELSE /\ posts' = PostCommitted(p)
               /\ TimePasses
               /\ Finish(p, "ok")
    /\ UNCHANGED <<likes, bookmarks, follows, call, loaded, comments, viewVars,
                   index, tasks, events, processed>>

\* ------------------------------------------------------- search service
\* doc of index_post: the fields of post_dict it copies.
IndexDoc(t) == [id |-> t.id, title |-> t.title, status |-> t.status]

\* client.index without an id: Elasticsearch adds a document of its own id.
EsIndexNoId(idx, doc) == idx \cup {doc @@ [n |-> Cardinality(idx)]}

\* client.index(index=..., id=doc["id"], document=doc): the document replaces
\* the one stored under the id.
EsIndex(idx, doc) == {d \in idx : d.id # doc.id} \cup {doc}

\* client.delete(index=..., id=..., ignore=[404])
EsDelete(idx, id) == {d \in idx : d.id # id}

\* An except branch that undoes the write of the post.
OnIndexErrorUndo(ps, t) == {r \in ps : r.id # t.id}

\* except Exception as e: logger.error(...): the posts table after a failed
\* call of the client.
OnIndexError(ps, t) == ps

\* The numbers of the tasks: the request that added the task, or the count of
\* the delivery.
TaskNumbers == Procs \cup 1..MaxJobs

\* Task number n runs: SearchService.index_post(post_dict).
index_post(n) ==
    /\ \E t \in tasks, o \in EsOutcomes :
        /\ t.n = n /\ t.kind = "upsert"
        /\ index' = IF o = "ok" THEN EsIndex(index, IndexDoc(t)) ELSE index
        /\ posts' = IF o = "ok" THEN posts ELSE OnIndexError(posts, t)
        /\ processed' = Append(processed, [task |-> t, outcome |-> o])
        /\ tasks' = tasks \ {t}
    /\ UNCHANGED <<likes, bookmarks, follows, pc, call, loaded, result, commentVars,
                   viewVars, events>>

\* Task number n runs: SearchService.delete_post(post_id).
search_delete_post(n) ==
    /\ \E t \in tasks, o \in EsOutcomes :
        /\ t.n = n /\ t.kind = "remove"
        /\ index' = IF o = "ok" THEN EsDelete(index, t.id) ELSE index
        /\ posts' = IF o = "ok" THEN posts ELSE OnIndexError(posts, t)
        /\ processed' = Append(processed, [task |-> t, outcome |-> o])
        /\ tasks' = tasks \ {t}
    /\ UNCHANGED <<likes, bookmarks, follows, pc, call, loaded, result, commentVars,
                   viewVars, events>>

\* The index events the search service may be handed by any caller, in any
\* order and more than once.
IndexEvents ==
    {[kind |-> "upsert", id |-> "p1", title |-> "a", status |-> "published",
      updated_at |-> 1],
     [kind |-> "upsert", id |-> "p1", title |-> "b", status |-> "published",
      updated_at |-> 2],
     [kind |-> "upsert", id |-> "p2", title |-> "a", status |-> "published",
      updated_at |-> 1],
     [kind |-> "remove", id |-> "p1", title |-> "-", status |-> "-",
      updated_at |-> Null],
     [kind |-> "remove", id |-> "p2", title |-> "-", status |-> "-",
      updated_at |-> Null]}

\* An index event is handed over as a task.
deliver(e) ==
    /\ Cardinality(events) < MaxJobs
    /\ AddTask(e @@ [n |-> Cardinality(events) + 1])
    /\ UNCHANGED <<likes, bookmarks, follows, pc, call, loaded, result, commentVars,
                   viewVars, posts, index, processed>>

\* ---------------------------------------------------------- search_posts
\* GET /api/posts/search?q=...: a query word, or no q and no tag ("").  Page 1
\* of the default size holds every hit of the model.
SearchCalls(p) ==
    {[op |-> "search_posts", user |-> "-", target |-> "-", amount |-> 0, q |-> q] :
        q \in IF p >= 3 THEN {"a", ""} ELSE {}}

\* must_clauses of SearchService.search_posts: the term status = "published"
\* and the multi_match of the query, both on the indexed document.
EsMatches(d, q) == d.status = "published" /\ d.title = q

\* The sequences that list every element of S once.
RECURSIVE HitOrders(_)
HitOrders(S) ==
    IF S = {} THEN {<< >>}
    ELSE UNION {{<<x>> \o h : h \in HitOrders(S \ {x})} : x \in S}

\* The rows of the hits in the order of the table, not of the hits.
RehydrateTable(ids, ps) ==
    LET hit(i) == {r \in ps : r.id = NewPostId[i] /\ \E j \in DOMAIN ids : ids[j] = r.id}
        F[i \in 0..Len(NewPostId)] ==
            IF i = 0 THEN << >>
            ELSE F[i - 1] \o (IF hit(i) = {} THEN << >> ELSE <<CHOOSE r \in hit(i) : TRUE>>) IN
    F[Len(NewPostId)]

\* "Reconstruct in order of ES hits": for uid in ids, append posts_map[uid]
\* when the SELECT returned a row of that id.
RECURSIVE Rehydrate(_, _)
Rehydrate(ids, ps) ==
    IF ids = << >> THEN << >>
    ELSE LET rows == {r \in ps : r.id = Head(ids)} IN
         (IF rows = {} THEN << >> ELSE <<CHOOSE r \in rows : TRUE>>)
         \o Rehydrate(Tail(ids), ps)

\* PostsPage(items=[], total=0, ...)
EmptyPage(es) == [id |-> 0, clap_count |-> 0, es |-> es, hits |-> << >>,
                  items |-> << >>, total |-> 0]

\* search_posts up to its SELECT: the empty page for an empty query, then the
\* search of the index, which answers total 0 and no hit when it fails.
search_posts_begin(p) ==
    /\ MayArrive(p)
    /\ \E c \in SearchCalls(p), o \in EsOutcomes :
        /\ call' = [call EXCEPT ![p] = c]
        /\ IF c.q = ""
              THEN /\ loaded' = [loaded EXCEPT ![p] = EmptyPage("unused")]
                   /\ Finish(p, "ok")
              ELSE IF o = "down"
                      THEN /\ loaded' = [loaded EXCEPT ![p] = EmptyPage("down")]
                           /\ Finish(p, "ok")
                      ELSE \E h \in HitOrders({d.id : d \in {x \in index : EsMatches(x, c.q)}}) :
                            IF h = << >>
                               THEN /\ loaded' = [loaded EXCEPT ![p] = EmptyPage("ok")]
                                    /\ Finish(p, "ok")
                               ELSE /\ loaded' = [loaded EXCEPT ![p] =
                                            [EmptyPage("ok") EXCEPT !.hits = h,
                                                                    !.total = Len(h)]]
                                    /\ Goto(p, "search_load")
    /\ UNCHANGED <<likes, bookmarks, follows, commentVars, viewVars, postVars>>

\* select(Post).where(Post.id.in_(ids)), the page in the order of the hits.
search_posts_load(p) ==
    /\ pc[p] = "search_load"
    /\ loaded' = [loaded EXCEPT ![p].items = Rehydrate(loaded[p].hits, posts)]
    /\ Finish(p, "ok")
    /\ UNCHANGED <<likes, bookmarks, follows, call, commentVars, viewVars, postVars>>

\* ======================================================= specifications
\* A step of request p after its arrival.
Step(p) ==
    \/ like_post_select(p)
    \/ like_post_update(p)
    \/ like_post_insert(p)
    \/ unlike_post_delete(p)
    \/ bookmark_post_select(p)
    \/ bookmark_post_insert(p)
    \/ remove_bookmark_delete(p)
    \/ follow_user_select(p)
    \/ follow_user_insert(p)
    \/ unfollow_user_delete(p)

\* The arrival of request p and its handler's first step.
Arrive(p) ==
    \/ like_post_begin(p)
    \/ unlike_post_select(p)
    \/ bookmark_post_begin(p)
    \/ remove_bookmark_select(p)
    \/ follow_user_begin(p)
    \/ unfollow_user_select(p)

\* Requests overlap freely: any request may take its next step.
Next == \E p \in Procs : Arrive(p) \/ Step(p)

Spec == Init /\ [][Next]_vars

\* No request is being served: every request that arrived has been answered.
Quiet == \A q \in Procs : pc[q] \in {"idle", "done"}

\* Requests run one after another: a request arrives only when no other
\* request is being served.
NextSeq == \E p \in Procs : (Quiet /\ Arrive(p)) \/ Step(p)

SpecSeq == Init /\ [][NextSeq]_vars

\* The comment handlers, overlapping freely.
CommentArrive(p) ==
    \/ create_comment_begin(p)
    \/ update_comment_begin(p)
    \/ delete_comment_begin(p)

CommentStep(p) ==
    \/ create_comment_parent(p)
    \/ create_comment_insert(p)
    \/ update_comment_commit(p)
    \/ delete_comment_commit(p)

NextComment == \E p \in Procs : CommentArrive(p) \/ CommentStep(p)

SpecComment == Init /\ [][NextComment]_vars

\* Page views: increment_view_count calls for any post and viewer key.
NextView == \E t \in ViewPosts, k \in ViewerKeys : increment_view_count(t, k)

SpecView == Init /\ [][NextView]_vars

\* The post handlers, overlapping freely, and their background tasks.
PostArrive(p) ==
    \/ create_post_begin(p)
    \/ update_post_begin(p)
    \/ delete_post_begin(p)

PostStep(p) ==
    \/ create_post_commit(p)
    \/ create_post_reload(p)
    \/ update_post_commit(p)
    \/ update_post_refresh(p)
    \/ delete_post_commit(p)

\* A background task runs, in any order with the other tasks and requests.
RunTask(n) == index_post(n) \/ search_delete_post(n)

NextPost ==
    \/ \E p \in Procs : PostArrive(p) \/ PostStep(p)
    \/ \E n \in TaskNumbers : RunTask(n)

SpecPost == Init /\ [][NextPost]_vars

\* Posts are created and read by slug; requests overlap freely.
ReadArrive(p) == create_post_begin(p) \/ get_post_by_slug_begin(p)

ReadStep(p) ==
    \/ create_post_commit(p)
    \/ create_post_reload(p)
    \/ get_post_by_slug_pfadd(p)
    \/ get_post_by_slug_commit(p)

NextRead == \E p \in Procs : ReadArrive(p) \/ ReadStep(p)

SpecRead == Init /\ [][NextRead]_vars

\* The like handlers of a post and its statistics.
StatsArrive(p) ==
    \/ like_post_begin(p)
    \/ unlike_post_select(p)
    \/ get_post_likes_count(p)

StatsStep(p) ==
    \/ like_post_select(p)
    \/ like_post_update(p)
    \/ like_post_insert(p)
    \/ unlike_post_delete(p)
    \/ get_post_likes_sum(p)
    \/ get_post_likes_user(p)

NextStats == \E p \in Procs : StatsArrive(p) \/ StatsStep(p)

SpecStats == Init /\ [][NextStats]_vars

\* The post handlers, the background tasks and the search of the posts.
FindArrive(p) == PostArrive(p) \/ search_posts_begin(p)

FindStep(p) == PostStep(p) \/ search_posts_load(p)

NextFind ==
    \/ \E p \in Procs : FindArrive(p) \/ FindStep(p)
    \/ \E n \in TaskNumbers : RunTask(n)

SpecFind == Init /\ [][NextFind]_vars

\* The posts table after create_post of a published post and of a draft, none
\* of them viewed yet.
StoredPosts ==
    {[id |-> NewPostId[1], title |-> "a", status |-> "published",
      author_id |-> AuthorUser, view_count |-> 0, updated_at |-> 1],
     [id |-> NewPostId[2], title |-> "a", status |-> "draft",
      author_id |-> AuthorUser, view_count |-> 0, updated_at |-> 1]}

InitViewed ==
    /\ likes = {}
    /\ bookmarks = {}
    /\ follows = {}
    /\ pc = [p \in Procs |-> "idle"]
    /\ call = [p \in Procs |-> NoCall]
    /\ loaded = [p \in Procs |-> NoRow]
    /\ result = [p \in Procs |-> "none"]
    /\ comments = {}
    /\ now = 2
    /\ hll = [t \in ViewPosts |-> [i \in Registers |-> 0]]
    /\ views = << >>
    /\ posts = StoredPosts
    /\ index = {}
    /\ tasks = {}
    /\ events = {}
    /\ processed = << >>

\* Views and updates of posts that exist.
ViewedArrive(p) == get_post_by_slug_begin(p) \/ update_post_begin(p)

ViewedStep(p) ==
    \/ get_post_by_slug_pfadd(p)
    \/ get_post_by_slug_commit(p)
    \/ update_post_commit(p)
    \/ update_post_refresh(p)

NextViewed == \E p \in Procs : ViewedArrive(p) \/ ViewedStep(p)

SpecViewed == InitViewed /\ [][NextViewed]_vars

\* The search service alone, handed any index events in any order.
NextSearch ==
    \/ \E e \in IndexEvents : deliver(e)
    \/ \E n \in TaskNumbers : RunTask(n)

SpecSearch == Init /\ [][NextSearch]_vars

\* =============================================================== claims
\* The like_post requests of user u on post t that passed validation.
ClapsOf(u, t) ==
    {p \in Procs : /\ call[p].op = "like_post"
                   /\ call[p].user = u /\ call[p].target = t
                   /\ LikeCreateValid(call[p].amount)}

\* The unlike_post requests of user u on post t.
UnclapsOf(u, t) ==
    {p \in Procs : /\ call[p].op = "unlike_post"
                   /\ call[p].user = u /\ call[p].target = t}

RECURSIVE SumAmounts(_)
SumAmounts(S) ==
    IF S = {} THEN 0
    ELSE LET p == CHOOSE x \in S : TRUE IN call[p].amount + SumAmounts(S \ {p})

\* C1: once all overlapping like_post calls of one user on one post have
\* finished (and the user sent no unlike_post), the user's clap_count is
\* min(50, sum of the amounts): there is a like row of the pair and every like
\* row of the pair holds that count.
C1_ClapSumExact ==
    \A u \in Users, t \in Posts :
        (Quiet /\ ClapsOf(u, t) # {} /\ UnclapsOf(u, t) = {})
        => /\ LikeRows(t, u) # {}
           /\ \A r \in LikeRows(t, u) :
                r.clap_count = Min(MaxClaps, SumAmounts(ClapsOf(u, t)))

\* C2: in every reachable state there is at most one like row per (post, user).
C2_OneLikePerPair ==
    \A u \in Users, t \in Posts : Cardinality(LikeRows(t, u)) <= 1

\* The clap_count of the pair: 0 when it has no like row.
ClapCount(lk, u, t) ==
    LET rows == {r \in lk : r.post_id = t /\ r.user_id = u} IN
    IF rows = {} THEN 0 ELSE (CHOOSE r \in rows : TRUE).clap_count

\* Request p is answered "ok" in this step.
Succeeds(p) == pc[p] # "done" /\ pc'[p] = "done" /\ result'[p] = "ok"

\* C3: when requests run one after another, a like_post that succeeds leaves
\* exactly one like row for its pair, with clap_count = min(amount, 50) when the
\* pair had no row and min(50, previous clap_count + amount) when it had one.
C3_SequentialClaps ==
    [][\A p \in Procs :
        (Succeeds(p) /\ call[p].op = "like_post")
        => LET u == call[p].user
               t == call[p].target
               before == ClapCount(likes, u, t)
           IN /\ Cardinality({r \in likes' : r.post_id = t /\ r.user_id = u}) = 1
              /\ ClapCount(likes', u, t) =
                    IF before = 0 THEN Min(call[p].amount, MaxClaps)
                    ELSE Min(MaxClaps, before + call[p].amount)]_vars

\* C3 witness: amount 30 followed by amount 30 by the same user on the same
\* post, both answered, and the pair's clap_count is 50.
C3_Witness ==
    \E p, q \in Procs :
        /\ p < q
        /\ call[p].op = "like_post" /\ call[q].op = "like_post"
        /\ call[p].user = call[q].user /\ call[p].target = call[q].target
        /\ call[p].amount = 30 /\ call[q].amount = 30
        /\ result[p] = "ok" /\ result[q] = "ok"
        /\ loaded[q].clap_count = 30
        /\ ClapCount(likes, call[p].user, call[p].target) = MaxClaps

\* C4: every like row has clap_count between 1 and 50.
C4_ClapRange ==
    \A r \in likes : r.clap_count >= MinClaps /\ r.clap_count <= MaxClaps

\* C4 witness: an unlike_post has been answered, and claps added to an existing
\* row have reached the cap.
C4_Witness ==
    /\ \E p \in Procs :
        /\ call[p].op = "like_post" /\ result[p] = "ok" /\ loaded[p].id # 0
        /\ \E r \in likes : r.id = loaded[p].id /\ r.clap_count = MaxClaps
    /\ \E q \in Procs : call[q].op = "unlike_post" /\ pc[q] = "done"

\* C5: at most one follow edge per (follower, followed), and no follow edge
\* has follower equal to followed.
C5_FollowUnique ==
    /\ \A a \in Users, b \in Users : Cardinality(FollowRows(a, b)) <= 1
    /\ \A r \in follows : r.follower_id # r.followed_id

\* C6: at most one bookmark row per (post, user).
C6_BookmarkUnique ==
    \A u \in Users, t \in Posts : Cardinality(BookmarkRows(t, u)) <= 1

\* C7: a follow_user whose existing-edge check runs while the edge exists is
\* answered "Already following this user" and the follow edges are unchanged.
C7_FollowTwiceConflict ==
    [][\A p \in Procs :
        (/\ pc[p] = "follow_select"
         /\ pc'[p] # "follow_select"
         /\ FollowRows(call[p].user, call[p].target) # {})
        => /\ result'[p] = "Already following this user"
           /\ follows' = follows]_vars

\* C8: a follow_user of oneself is answered "Cannot follow yourself" at once:
\* it never reaches the existing-edge check or the insert, and no follow edge
\* from a user to itself exists.
C8_SelfFollowFails ==
    /\ \A p \in Procs :
        (call[p].op = "follow_user" /\ call[p].user = call[p].target)
        => (pc[p] = "done" /\ result[p] = "Cannot follow yourself")
    /\ \A r \in follows : r.follower_id # r.followed_id

\* C8 witness: a self-follow was answered in a state that has follow edges.
C8_Witness ==
    /\ follows # {}
    /\ \E p \in Procs :
        /\ call[p].op = "follow_user" /\ call[p].user = call[p].target
        /\ result[p] = "Cannot follow yourself"

\* Request p arrives in this step.
Arrives(p) == pc[p] = "idle" /\ pc'[p] # "idle"

\* The rows of the key of the request p that arrives, in the current state.
KeyRows(p) ==
    CASE call'[p].op = "unlike_post" -> LikeRows(call'[p].target, call'[p].user)
      [] call'[p].op = "remove_bookmark" -> BookmarkRows(call'[p].target, call'[p].user)
      [] call'[p].op = "unfollow_user" -> FollowRows(call'[p].user, call'[p].target)
      [] OTHER -> {}

NotFoundDetail(op) ==
    CASE op = "unlike_post" -> "Like not found"
      [] op = "remove_bookmark" -> "Bookmark not found"
      [] op = "unfollow_user" -> "Not following this user"
      [] OTHER -> "-"

RemovalOps == {"unlike_post", "remove_bookmark", "unfollow_user"}

\* C9: an unlike_post, remove_bookmark or unfollow_user that arrives when its
\* key has no row is answered NotFound and changes no row; one that arrives
\* when its key has a row is not refused, and its delete step removes exactly
\* one row, a row of its key.
C9_RemoveExactlyTheRow ==
    [][\A p \in Procs :
        /\ (Arrives(p) /\ call'[p].op \in RemovalOps)
            => /\ <<likes, bookmarks, follows>>' = <<likes, bookmarks, follows>>
               /\ IF KeyRows(p) = {}
                     THEN result'[p] = NotFoundDetail(call'[p].op)
                     ELSE pc'[p] # "done"
        /\ (pc[p] = "unlike_delete" /\ pc'[p] = "done")
            => \E r \in LikeRows(call[p].target, call[p].user) :
                    /\ likes' = likes \ {r}
                    /\ UNCHANGED <<bookmarks, follows>>
        /\ (pc[p] = "bookmark_delete" /\ pc'[p] = "done")
            => \E r \in BookmarkRows(call[p].target, call[p].user) :
                    /\ bookmarks' = bookmarks \ {r}
                    /\ UNCHANGED <<likes, follows>>
        /\ (pc[p] = "follow_delete" /\ pc'[p] = "done")
            => \E r \in FollowRows(call[p].user, call[p].target) :
                    /\ follows' = follows \ {r}
                    /\ UNCHANGED <<likes, bookmarks>>]_vars

\* One like_post or unlike_post run alone on a pair whose clap_count is c
\* (0: no row): the clap_count afterwards and the response.
SerialStep(c, k) ==
    IF k.op = "like_post"
       THEN [count |-> IF c = 0 THEN FirstClaps(k.amount) ELSE AddClaps(c, k.amount),
             res |-> "ok"]
       ELSE [count |-> 0, res |-> IF c = 0 THEN "Like not found" ELSE "ok"]

\* The outcomes of the requests S run one after another, in every order, on a
\* pair whose clap_count is c.
RECURSIVE SerialOutcomes(_, _)
SerialOutcomes(S, c) ==
    IF S = {} THEN {[count |-> c, res |-> [p \in {} |-> "ok"]]}
    ELSE UNION {LET s == SerialStep(c, call[p]) IN
                {[count |-> o.count, res |-> (p :> s.res) @@ o.res] :
                    o \in SerialOutcomes(S \ {p}, s.count)} : p \in S}

\* C10: when like_post and unlike_post calls of one user on one post have all
\* finished, the pair has no like row or one like row, and that state together
\* with the calls' responses is the outcome of the calls in some serial order.
C10_ClapUnclapSerializable ==
    \A u \in Users, t \in Posts :
        LET S == ClapsOf(u, t) \cup UnclapsOf(u, t) IN
        (/\ Quiet
         /\ S = {p \in Procs : pc[p] = "done"}
         /\ ClapsOf(u, t) # {} /\ UnclapsOf(u, t) # {})
        => /\ Cardinality(LikeRows(t, u)) <= 1
           /\ [count |-> ClapCount(likes, u, t), res |-> [p \in S |-> result[p]]]
                \in SerialOutcomes(S, 0)

\* ------------------------------------------------------- comment claims
\* The create_comment requests that were answered.
CreatesDone == {p \in Procs : pc[p] = "done" /\ call[p].op = "create_comment"}

\* The comment with id c (the id is the primary key).
CommentById(c) == CHOOSE r \in comments : r.id = c

CommentIds == {r.id : r \in comments}

\* C11: every comment whose parent_id is set references a comment that exists
\* and belongs to the same post.
C11_ParentSamePost ==
    \A c \in comments :
        c.parent_id # Null =>
            \E q \in comments : q.id = c.parent_id /\ q.post_id = c.post_id

\* A reply was inserted under a comment of its own post, and a reply naming
\* that same comment from another post was refused and inserted nothing.
C11_Witness ==
    \E c \in comments, p \in CreatesDone :
        /\ c.parent_id # Null
        /\ call[p].parent = c.parent_id
        /\ call[p].target # c.post_id
        /\ result[p] # "ok"
        /\ p \notin CommentIds

\* The step in which create_comment request p looks its parent up.
ChecksParent(p) == pc[p] = "comment_parent" /\ pc'[p] # "comment_parent"

\* C12 as stated: create_comment fails with NotFound when the post or the
\* parent does not resolve, and with an error distinct from NotFound when the
\* parent exists but belongs to another post; a failing call inserts nothing.
C12_InvalidParentDistinct ==
    [][\A p \in Procs :
        /\ (Arrives(p) /\ call'[p].op = "create_comment"
              /\ call'[p].target \notin CommentPosts)
           => /\ pc'[p] = "done" /\ result'[p] = "Post not found"
              /\ comments' = comments
        /\ ChecksParent(p)
           => IF ~\E r \in comments : r.id = call[p].parent
                 THEN /\ pc'[p] = "done" /\ result'[p] = "Parent comment not found"
                      /\ comments' = comments
              ELSE IF CommentById(call[p].parent).post_id # call[p].target
                 THEN /\ pc'[p] = "done"
                      /\ result'[p] \notin {"ok", "Post not found",
                                           "Parent comment not found"}
                      /\ comments' = comments
              ELSE pc'[p] = "comment_insert"]_vars

\* C12: create_comment fails with "Post not found" when the post does not
\* resolve and with the one error "Parent comment not found" both when the
\* parent does not resolve and when it exists but belongs to another post; a
\* failing call inserts nothing, then or later.
C12_CreateCommentErrors ==
    [][\A p \in Procs :
        /\ (Arrives(p) /\ call'[p].op = "create_comment"
              /\ call'[p].target \notin CommentPosts)
           => /\ pc'[p] = "done" /\ result'[p] = "Post not found"
              /\ comments' = comments
        /\ ChecksParent(p)
           => IF \/ ~\E r \in comments : r.id = call[p].parent
                 \/ CommentById(call[p].parent).post_id # call[p].target
                 THEN /\ pc'[p] = "done" /\ result'[p] = "Parent comment not found"
                      /\ comments' = comments
                 ELSE pc'[p] = "comment_insert"
        /\ (pc[p] = "done" /\ call[p].op = "create_comment" /\ result[p] # "ok")
           => (p \in CommentIds') = (p \in CommentIds)]_vars

\* The three refusals side by side: an unknown post, a parent that does not
\* resolve (its request inserted nothing) and a parent of another post.
C12_Witness ==
    \E p1, p2 \in CreatesDone :
        /\ result[p1] = "Post not found"
        /\ result[p2] = "Parent comment not found"
        /\ call[p2].parent \in CommentIds
        /\ CommentById(call[p2].parent).post_id # call[p2].target
        /\ {p1, p2} \cap CommentIds = {}

\* C13: update_comment fails with "Not authorized to update this comment" when
\* the actor is not the comment's author, whatever the actor's role, and with
\* "Cannot update deleted comment" when the comment is soft-deleted; the
\* failing call changes no comment, and the authorization failure comes first
\* when both apply.
C13_UpdateRefusals ==
    [][\A p \in Procs :
        (/\ Arrives(p) /\ call'[p].op = "update_comment"
         /\ CommentRows(call'[p].cid, call'[p].target) # {})
        => LET r == CommentById(call'[p].cid) IN
           IF r.author_id # call'[p].user
              THEN /\ pc'[p] = "done"
                   /\ result'[p] = "Not authorized to update this comment"
                   /\ comments' = comments
           ELSE IF r.is_deleted
              THEN /\ pc'[p] = "done"
                   /\ result'[p] = "Cannot update deleted comment"
                   /\ comments' = comments
           ELSE pc'[p] = "comment_update"]_vars

\* The author's update of a soft-deleted comment was refused as deleted.
C13_Witness ==
    \E p \in Procs :
        /\ pc[p] = "done" /\ call[p].op = "update_comment"
        /\ result[p] = "Cannot update deleted comment"
        /\ \E r \in comments : /\ r.id = call[p].cid /\ r.is_deleted
                               /\ r.author_id = call[p].user
                               /\ r.content = Tombstone

\* C14: in every state a comment with is_deleted set has the tombstone as its
\* content, also when the author's update_comment read the comment before a
\* delete_comment committed and wrote after it.
C14_DeletedHasTombstone ==
    \A r \in comments : r.is_deleted => r.content = Tombstone

\* The step in which delete_comment request p commits.
DeleteCommits(p) == pc[p] = "comment_delete" /\ pc'[p] = "done"

\* C15: delete_comment of comment C removes no row and changes no field of any
\* other comment: the replies of C are the same rows before and after, and
\* get_replies of C still returns them, each with parent_id = C.
C15_SoftDeleteKeepsReplies ==
    [][\A p \in Procs :
        DeleteCommits(p) =>
            LET C == loaded[p].id IN
            /\ {r.id : r \in comments'} = {r.id : r \in comments}
            /\ {r \in comments' : r.id # C} = {r \in comments : r.id # C}
            /\ get_replies(call[p].target, C, 1, DefaultSize)'
                 = get_replies(call[p].target, C, 1, DefaultSize)
            /\ \A pg \in get_replies(call[p].target, C, 1, DefaultSize)' :
                 /\ {pg[i] : i \in 1..Len(pg)} = {r \in comments' : r.parent_id = C}
                 /\ \A i \in 1..Len(pg) : pg[i].parent_id = C]_vars

\* A comment that has a reply was soft-deleted, and the reply is still listed.
C15_Witness ==
    \E p \in Procs, r \in comments :
        /\ pc[p] = "done" /\ call[p].op = "delete_comment" /\ result[p] = "ok"
        /\ r.parent_id = call[p].cid
        /\ CommentById(call[p].cid).is_deleted
        /\ \E pg \in get_replies(call[p].target, call[p].cid, 1, DefaultSize) :
             Len(pg) = 1 /\ pg[1] = r

\* C16: a delete_comment of a comment that is already soft-deleted either is
\* refused or changes nothing: every field, deleted_at included, stays as the
\* first delete set it.
C16_SecondDeleteNoOp ==
    [][\A p \in Procs :
        (DeleteCommits(p) /\ loaded[p].row.is_deleted) => comments' = comments]_vars

\* C17: delete_comment goes ahead when the actor is the comment's author or an
\* admin, and its commit leaves the comment with is_deleted set, deleted_at
\* set and the tombstone as content; any other actor gets "Not authorized to
\* delete this comment" and no comment changes.
C17_SoftDeleteByAuthorOrAdmin ==
    [][\A p \in Procs :
        /\ (/\ Arrives(p) /\ call'[p].op = "delete_comment"
            /\ CommentRows(call'[p].cid, call'[p].target) # {})
           => LET r == CommentById(call'[p].cid) IN
              IF r.author_id = call'[p].user \/ UserRole(call'[p].user) = "admin"
                 THEN pc'[p] = "comment_delete"
                 ELSE /\ pc'[p] = "done"
                      /\ result'[p] = "Not authorized to delete this comment"
                      /\ comments' = comments
        /\ DeleteCommits(p)
           => /\ result'[p] = "ok"
              /\ \E r \in comments' :
                   /\ r.id = loaded[p].id
                   /\ r.is_deleted /\ r.deleted_at # Null /\ r.content = Tombstone]_vars

\* C18: get_comments of a post returns exactly the comments of that post that
\* have no parent, newest first, and get_replies of a comment returns exactly
\* the comments whose parent_id is that comment, oldest first; soft-deleted
\* comments are in both lists.
C18_ListingsExactAndOrdered ==
    /\ \A t \in CommentPosts : \A pg \in get_comments(t, 1, DefaultSize) :
         /\ {pg[i].comment : i \in 1..Len(pg)}
              = {r \in comments : r.post_id = t /\ r.parent_id = Null}
         /\ \A i, j \in 1..Len(pg) :
              /\ i # j => pg[i].comment # pg[j].comment
              /\ i < j => pg[i].comment.created_at >= pg[j].comment.created_at
    /\ \A c \in comments : \A pg \in get_replies(c.post_id, c.id, 1, DefaultSize) :
         /\ {pg[i] : i \in 1..Len(pg)} = {r \in comments : r.parent_id = c.id}
         /\ \A i, j \in 1..Len(pg) :
              /\ i # j => pg[i] # pg[j]
              /\ i < j => pg[i].created_at <= pg[j].created_at

\* Two top-level comments of one post written at different times, the older
\* one soft-deleted: the list has the newer first and the deleted one second.
C18_Witness ==
    \E a, b \in comments :
        /\ a.post_id = b.post_id /\ a.parent_id = Null /\ b.parent_id = Null
        /\ a.created_at < b.created_at /\ a.is_deleted
        /\ get_comments(a.post_id, 1, DefaultSize)
             = {<<[comment |-> b, reply_count |-> 0], [comment |-> a, reply_count |-> 0]>>}

\* C19: the reply count of each listed top-level comment is the number of
\* comments whose parent_id is that comment, soft-deleted ones included: its
\* direct children, not its whole subtree.
C19_ReplyCountDirect ==
    \A t \in CommentPosts : \A pg \in get_comments(t, 1, DefaultSize) :
        \A i \in 1..Len(pg) :
            pg[i].reply_count
              = Cardinality({r \in comments : r.parent_id = pg[i].comment.id})

\* A top-level comment with a reply that itself has a reply is listed with a
\* reply count of 1.
C19_Witness ==
    \E a, b, c \in comments :
        /\ a.parent_id = Null /\ b.parent_id = a.id /\ c.parent_id = b.id
        /\ \E pg \in get_comments(a.post_id, 1, DefaultSize) :
             Len(pg) = 1 /\ pg[1].comment = a /\ pg[1].reply_count = 1

\* ------------------------------------------------------- analytics claims
\* C20: in every order of increment_view_count calls, for each post and viewer
\* key the first call returns true and every later call returns false; the
\* same key on another post counts on its own and returns true the first time.
C20_FirstViewUnique ==
    \A i \in 1..Len(views) :
        views[i].unique
          = ~\E j \in 1..(i - 1) :
               views[j].post = views[i].post /\ views[j].key = views[i].key

\* ------------------------------------------------------------ post claims
\* The increment_view_count calls for post t that returned true.
UniqueViews(t) == {i \in DOMAIN views : views[i].post = t /\ views[i].unique}

\* C21: once the get_post_by_slug requests on a published post have all been
\* answered, overlapping ones from distinct viewers included, the post's
\* view_count is the number of increment_view_count calls for the post that
\* returned true.
C21_ViewCountExact ==
    Quiet => \A r \in posts : r.view_count = Cardinality(UniqueViews(r.id))

\* A search service call ends in this step; Ran is the call and its outcome.
Runs == Len(processed') = Len(processed) + 1

Ran == processed'[Len(processed')]

\* The calls so far that took effect on the document of id.
AppliedTo(id) ==
    {i \in DOMAIN processed :
        processed[i].task.id = id /\ processed[i].outcome = "ok"}

\* The updated_at of the upsert that wrote the document the index holds for
\* id (Null when it holds none).
IndexedAt(id) ==
    IF AppliedTo(id) = {} THEN Null
    ELSE LET last == CHOOSE i \in AppliedTo(id) : \A k \in AppliedTo(id) : k <= i IN
         IF processed[last].task.kind = "upsert"
            THEN processed[last].task.updated_at ELSE Null

\* The documents the index holds under id.
DocsOf(idx, id) == {d \in idx : d.id = id}

C28_IndexIdempotent ==
    [][(Runs /\ Ran.outcome = "ok") =>
         LET t == Ran.task IN
         /\ \A id \in PostIds \ {t.id} : DocsOf(index', id) = DocsOf(index, id)
         /\ t.kind = "upsert" => /\ DocsOf(index', t.id) = {IndexDoc(t)}
                                 /\ IndexDoc(t) \in index => index' = index
         /\ t.kind = "remove" => /\ DocsOf(index', t.id) = {}
                                 /\ DocsOf(index, t.id) = {} => index' = index]_vars

\* A remove found no document, then the same upsert ran twice: the index holds
\* the one document.
C28_Witness ==
    /\ Len(processed) = 3
    /\ \A i \in 1..3 : processed[i].outcome = "ok" /\ processed[i].task.id = "p1"
    /\ processed[1].task.kind = "remove"
    /\ processed[2].task.kind = "upsert"
    /\ IndexDoc(processed[3].task) = IndexDoc(processed[2].task)
    /\ processed[3].task.kind = "upsert"
    /\ processed[3].task.updated_at = processed[2].task.updated_at
    /\ index = {IndexDoc(processed[2].task)}

\* Every search service call so far took effect (the index was reachable).
IndexReachable == \A i \in DOMAIN processed : processed[i].outcome = "ok"

\* Post id was published (its upsert task was added) and a successful
\* update_post has archived it.
PublishedThenArchived(id) ==
    /\ \E e \in events : e.kind = "upsert" /\ e.id = id
    /\ \E r \in posts : r.id = id /\ r.status = "archived"
    /\ \E q \in Procs : /\ pc[q] = "done" /\ result[q] = "ok"
                        /\ call[q].op = "update_post" /\ call[q].target = id
                        /\ call[q].status = "archived"

\* C23: when post P was published and then archived before the first
\* background task of P runs, then once the tasks of P have run, the index
\* holds no document for P.
C23_PublishArchiveAbsent ==
    [][\A id \in PostIds :
        (/\ Runs /\ Ran.task.id = id /\ Ran.outcome = "ok"
         /\ {i \in DOMAIN processed : processed[i].task.id = id} = {}
         /\ PublishedThenArchived(id)
         /\ Quiet
         /\ {t \in tasks' : t.id = id} = {})
        => DocsOf(index', id) = {}]_vars

\* The document the index should hold for post id: that of its row when the
\* row exists and is published, none otherwise.
ExpectedDocs(id) ==
    {[id |-> r.id, title |-> r.title, status |-> r.status] :
        r \in {x \in posts : x.id = id /\ x.status = "published"}}

\* C24: convergence.  When no request is in flight, no task is pending and
\* the index was reachable for every task, the index holds a document for a
\* post exactly when the post exists and is published, and the document has
\* the post's current title and status.
C24_IndexConverges ==
    (Quiet /\ tasks = {} /\ IndexReachable)
    => \A id \in PostIds : DocsOf(index, id) = ExpectedDocs(id)

\* The step in which update_post request p returns its post.
UpdateReturns(p) ==
    pc[p] = "post_refresh" /\ pc'[p] = "done" /\ result'[p] = "ok"

\* The row of request p's post after the step.
PostAfter(p) == CHOOSE r \in posts' : r.id = loaded[p].id

\* C25: every successful update_post that leaves the post published adds an
\* upsert task that carries the post's new title, status and updated_at.
C25_UpdateEmitsUpsert ==
    [][\A p \in Procs :
        (UpdateReturns(p) /\ PostAfter(p).status = "published")
        => UpsertTask(p, PostAfter(p)) \in events']_vars

\* C26: every successful update_post that moves a post from published to
\* draft or archived, and every successful delete_post, adds a remove task for
\* the post's id.
C26_UnpublishEmitsRemove ==
    [][\A p \in Procs :
        /\ (/\ UpdateReturns(p)
            /\ loaded[p].row.status = "published"
            /\ PostAfter(p).status # "published")
           => RemoveTask(p, loaded[p].id) \in events'
        /\ (pc[p] = "post_delete" /\ pc'[p] = "done" /\ result'[p] = "ok")
           => RemoveTask(p, loaded[p].id) \in events']_vars

\* The step in which create_post request p returns its post.
CreateReturns(p) ==
    pc[p] = "post_reload" /\ pc'[p] = "done" /\ result'[p] = "ok"

\* The tasks request p has added.
TasksOf(ev, p) == {e \in ev : e.n = p}

\* The row of the post request p created, after the step.
Created(p) == CHOOSE r \in posts' : r.id = call[p].target

C29_IndexFailureContained ==
    [][(Runs /\ Ran.outcome = "down")
       => /\ posts' = posts
          /\ index' = index
          /\ pc' = pc /\ result' = result
          /\ tasks' = tasks \ {Ran.task}]_vars

\* The index was down for the upsert of a created post and for the remove of
\* a deleted one: both requests were answered ok, the first post is in the
\* table and the second is not.
C29_Witness ==
    \E i, j \in DOMAIN processed :
        /\ processed[i].outcome = "down" /\ processed[i].task.kind = "upsert"
        /\ processed[j].outcome = "down" /\ processed[j].task.kind = "remove"
        /\ result[processed[i].task.n] = "ok"
        /\ result[processed[j].task.n] = "ok"
        /\ PostRows(processed[i].task.id) # {}
        /\ PostRows(processed[j].task.id) = {}

\* C30: a failure of the view deduplicator during get_post_by_slug does not
\* reach the request: the request is answered with the post and no row of the
\* posts table changes.
C30_DeduplicatorFailureHidden ==
    [][\A p \in Procs :
        (pc[p] = "view_pfadd" /\ pc'[p] = "done")
        => result'[p] = "ok" /\ posts' = posts]_vars

\* The index events request p adds in the step.
Emitted(p) == TasksOf(events', p) \ events

\* C31: a request adds an index task only in the step that answers it ok, and
\* only once its write is committed: the upsert of create_post after the
\* commit that inserted the row, the remove of delete_post with the row gone
\* from the table.  A request that fails (not found, not authorized, refresh or
\* commit raising) has added no task.
C31_EventAfterCommit ==
    [][\A p \in Procs :
        /\ \A e \in Emitted(p) :
            /\ pc'[p] = "done" /\ result'[p] = "ok"
            /\ e.kind = "upsert" =>
                /\ call[p].op = "create_post" /\ pc[p] = "post_reload"
                /\ PostRows(e.id) # {}
            /\ e.kind = "remove" =>
                /\ call[p].op = "delete_post"
                /\ {r \in posts' : r.id = e.id} = {}
        /\ (pc'[p] = "done" /\ result'[p] # "ok") => TasksOf(events', p) = {}]_vars

\* A create_post and a delete_post were answered ok with their tasks added,
\* and a create_post whose post was deleted before the refresh failed with
\* none.
C31_Witness ==
    \E p, q, f \in Procs :
        /\ call[p].op = "create_post" /\ result[p] = "ok"
        /\ \E e \in events : e.n = p /\ e.kind = "upsert"
        /\ call[q].op = "delete_post" /\ result[q] = "ok"
        /\ \E e \in events : e.n = q /\ e.kind = "remove"
        /\ call[f].op = "create_post" /\ result[f] = "Internal Server Error"
        /\ TasksOf(events, f) = {}

\* The task of the last run has failed for the first time.
FirstFailure ==
    /\ Runs /\ Ran.outcome = "down"
    /\ \A i \in DOMAIN processed : processed[i].task # Ran.task

\* C32: an upsert or remove task that fails because the index is down is
\* retried: after its first failure it is still to run.
C32_FailedJobRetried == [][FirstFailure => Ran.task \in tasks']_vars

\* Post id was created published by a request answered ok and deleted by a
\* request answered ok, and both tasks have run with the index reachable.
CreatedThenDeleted(id) ==
    /\ \E p, q \in Procs :
        /\ call[p].op = "create_post" /\ result[p] = "ok"
        /\ call[q].op = "delete_post" /\ result[q] = "ok"
        /\ call[p].target = id /\ call[q].target = id
        /\ \E i, j \in DOMAIN processed :
            /\ processed[i].task.n = p /\ processed[i].task.kind = "upsert"
            /\ processed[i].task.id = id /\ processed[i].outcome = "ok"
            /\ processed[j].task.n = q /\ processed[j].task.kind = "remove"
            /\ processed[j].task.id = id /\ processed[j].outcome = "ok"
    /\ PostRows(id) = {}
    /\ {t \in tasks : t.id = id} = {}

\* C33: when a post created as published is deleted before its upsert task has
\* run, then once the upsert and the remove task have both run, in either
\* order, the index holds no document of the post.
C33_CreateDeleteAbsent ==
    \A id \in PostIds : CreatedThenDeleted(id) => DocsOf(index, id) = {}

\* The step in which get_post_likes request p ends.
StatsReturns(p) == pc[p] = "stats_user" /\ pc'[p] = "done"

\* No (post, user) pair has two like rows.
OneRowPerPair ==
    \A r1, r2 \in likes :
        (r1.post_id = r2.post_id /\ r1.user_id = r2.user_id) => r1 = r2

\* The sum of clap_count over like rows, 0 for none.
RECURSIVE TotalClaps(_)
TotalClaps(rows) ==
    IF rows = {} THEN 0
    ELSE LET r == CHOOSE x \in rows : TRUE IN r.clap_count + TotalClaps(rows \ {r})

\* C35: get_post_likes answers with total_likes the number of like rows of the
\* post, total_claps the sum of their clap_count, user_liked true exactly when
\* the viewer has a like row on the post and user_claps that row's clap_count
\* or 0; so total_likes <= total_claps <= 50 * total_likes in the response
\* whenever no pair has two rows.
C35_LikeStatsExact ==
    [][\A p \in Procs :
        StatsReturns(p) =>
            LET rows == {r \in likes : r.post_id = call[p].target}
                mine == {r \in rows : r.user_id = call[p].user}
                st == loaded'[p] IN
            /\ result'[p] = "ok"
            /\ st.total_likes = Cardinality(rows)
            /\ st.total_claps = TotalClaps(rows)
            /\ st.user_liked = (mine # {})
            /\ st.user_claps = IF mine = {} THEN 0
                               ELSE (CHOOSE r \in mine : TRUE).clap_count
            /\ OneRowPerPair =>
                /\ st.total_likes <= st.total_claps
                /\ st.total_claps <= MaxClaps * st.total_likes]_vars

\* The comments reached from comment r of the table cs by following
\* parent_id at most n times.
RECURSIVE Ancestors(_, _, _)
Ancestors(cs, r, n) ==
    IF n = 0 \/ r.parent_id = Null THEN {}
    ELSE LET ps == {x \in cs : x.id = r.parent_id} IN
         ps \cup UNION {Ancestors(cs, x, n - 1) : x \in ps}

\* Following parent_id from any comment of cs ends at a top-level comment: the
\* chain has a top-level comment and does not come back to where it started.
Acyclic(cs) ==
    \A r \in cs :
        \/ r.parent_id = Null
        \/ LET up == Ancestors(cs, r, Cardinality(cs)) IN
           /\ r \notin up
           /\ \E t \in up : t.parent_id = Null

\* C36: every comment keeps its post_id, author_id and parent_id in every step
\* of create_comment, update_comment and delete_comment, and the parent
\* relation is acyclic.
C36_CommentFrameAcyclic ==
    [][/\ \A r \in comments : \E k \in comments' :
            /\ k.id = r.id
            /\ k.post_id = r.post_id
            /\ k.author_id = r.author_id
            /\ k.parent_id = r.parent_id
       /\ Acyclic(comments')]_vars

\* A reply was edited or soft-deleted, or its parent was: the reply still
\* names its parent, which is a comment of the same post.
C36_Witness ==
    \E q \in Procs, r \in comments :
        /\ pc[q] = "done" /\ result[q] = "ok"
        /\ call[q].op \in {"update_comment", "delete_comment"}
        /\ r.parent_id # Null
        /\ call[q].cid \in {r.id, r.parent_id}
        /\ \E t \in comments : t.id = r.parent_id /\ t.parent_id = Null

\* The step in which search_posts request p answers.
SearchReturns(p) ==
    call'[p].op = "search_posts" /\ pc[p] # "done" /\ pc'[p] = "done"

\* The place of post id in the sequence of hits.
HitPlace(h, id) == CHOOSE i \in DOMAIN h : h[i] = id

\* C34: search_posts answers a page, never an error; its items are rows of the
\* posts table as it stands when the page is built, one for every hit whose id
\* has a row and none for a hit without a row, in the order of the hits; when
\* the index fails the page is empty.
C34_SearchRehydrates ==
    [][\A p \in Procs :
        SearchReturns(p) =>
            LET pg == loaded'[p] IN
            /\ result'[p] = "ok"
            /\ \A i \in DOMAIN pg.items : pg.items[i] \in posts
            /\ {pg.items[i].id : i \in DOMAIN pg.items}
                 = {pg.hits[i] : i \in DOMAIN pg.hits} \cap {r.id : r \in posts}
            /\ \A i, j \in DOMAIN pg.items :
                 i < j => HitPlace(pg.hits, pg.items[i].id)
                            < HitPlace(pg.hits, pg.items[j].id)
            /\ pg.es = "down" => pg.items = << >> /\ pg.total = 0]_vars

\* A search answered two posts with the later post first, as the index listed
\* them.
C34_Witness ==
    \E p \in Procs :
        /\ pc[p] = "done" /\ call[p].op = "search_posts" /\ result[p] = "ok"
        /\ loaded[p].hits = <<NewPostId[2], NewPostId[1]>>
        /\ Len(loaded[p].items) = 2
        /\ loaded[p].items[1].id = NewPostId[2]

\* C37: no item of a search_posts page is a post whose status in the posts
\* table is not published.
C37_SearchOnlyPublished ==
    [][\A p \in Procs :
        SearchReturns(p) =>
            \A i \in DOMAIN loaded'[p].items :
                \A r \in posts : r.id = loaded'[p].items[i].id => r.status = "published"]_vars

\* get_post_by_slug request p arrives for a post that is absent or not
\* published.
ViewsUnpublished(p) ==
    /\ Arrives(p) /\ call'[p].op = "get_post_by_slug"
    /\ \A r \in posts : r.id = call'[p].target => r.status # "published"

\* C38: no step lowers the view_count of a post, and get_post_by_slug on a post
\* that is absent or not published answers not found, registers no view and
\* changes no view_count.
C38_ViewCountMonotone ==
    [][/\ \A r \in posts : \A k \in posts' :
            k.id = r.id => k.view_count >= r.view_count
       /\ \A p \in Procs :
            ViewsUnpublished(p) =>
                /\ pc'[p] = "done" /\ result'[p] = "Post not found"
                /\ hll' = hll /\ views' = views /\ posts' = posts]_vars

\* update_post or delete_post request p arrives.
ChangeArrives(p) ==
    Arrives(p) /\ call'[p].op \in {"update_post", "delete_post"}

\* The detail of the 403 of the handler.
ForbiddenDetail(op) ==
    IF op = "update_post" THEN "Not authorized to update this post"
    ELSE "Not authorized to delete this post"

====
